---- MODULE Spec2Model ----
(***************************************************************************)
(* Model of examples/python/manifest_client.py: the ManifestClient methods *)
(* (health_check, load_manifest, convert_to_format,                        *)
(* convert_url_to_manifest, validate_manifest, batch_convert) and main().  *)
(*                                                                         *)
(* One behaviour is one top-level call on a freshly constructed client.    *)
(* The manifest server and the local filesystem are the environment: the   *)
(* outcome of every session.get / session.post call and of every file      *)
(* operation is chosen nondeterministically when the call is made.         *)
(*                                                                         *)
(* Python values: a dict is [type |-> "dict", items |-> <function>], None  *)
(* is PyNone, str and bool are TLA+ strings and booleans.  An exception is *)
(* [type |-> <class name>, msg |-> <str(e)>]; NoExc means "none raised".   *)
(***************************************************************************)
EXTENDS Integers, Sequences, FiniteSets, TLC

VARIABLES
    server_url,  \* self.server_url
    pc,          \* position of the running top-level call
    op,          \* name of the top-level call ("none" before it starts)
    ret,         \* value the top-level call returned (PyNone until then)
    raised,      \* exception that escaped the top-level call, or NoExc
    dirs,        \* filesystem: the directories that exist (normalised paths)
    files,       \* filesystem: path -> content, for the files that exist
    http,        \* session.get / session.post calls made so far, in order
    fsops,       \* file operations attempted so far, in order
    prints,      \* lines printed so far, in order
    calls,       \* batch_convert: each convert_to_format call's format_type and result
    args,        \* the arguments of a method called directly, and the answers
                 \* the environment gave it
    manifest,    \* manifest / manifest_data local
    output_dir,  \* batch_convert's output_dir argument
    validation,  \* main's validation local
    caller,      \* who called batch_convert: "top" or "main"
    trace,       \* main: the calls made so far and whether each result was truthy
    i            \* batch_convert: index into formats of the next iteration

vars == <<server_url, pc, op, ret, raised, dirs, files, http, fsops, prints,
          calls, args, manifest, output_dir, validation, caller, trace, i>>

-----------------------------------------------------------------------------
(* Python values and exceptions *)

PyNone == [type |-> "NoneType", items |-> <<>>]

Dict(f) == [type |-> "dict", items |-> f]

EmptyDict == Dict(<<>>)

\* bool(v) for the values a manifest or validation local can hold
Truthy(v) == v.type = "dict" /\ DOMAIN v.items # {}

NoExc == [type |-> "none", msg |-> ""]

Exc(t, m) == [type |-> t, msg |-> m]

\* str(e)
Str(e) == e.msg

\* the subclasses of requests.RequestException that occur below
RequestExceptionTypes == {"ConnectionError", "Timeout", "HTTPError"}

\* isinstance(e, requests.RequestException)
IsRequestException(e) == e.type \in RequestExceptionTypes

-----------------------------------------------------------------------------
(* Strings *)

\* s.startswith(p)
StartsWith(s, p) == Len(s) >= Len(p) /\ SubSeq(s, 1, Len(p)) = p

\* s.rstrip('/')
RECURSIVE rstrip(_)
rstrip(s) ==
    IF Len(s) > 0 /\ SubSeq(s, Len(s), Len(s)) = "/"
    THEN rstrip(SubSeq(s, 1, Len(s) - 1))
    ELSE s

\* The path the operating system resolves p to, relative to the working
\* directory: a leading "./" and trailing "/" do not change the file named.
\* pathlib.Path(p) normalises the same way.
RECURSIVE Norm(_)
Norm(p) ==
    IF StartsWith(p, "./") THEN Norm(SubSeq(p, 3, Len(p)))
    ELSE rstrip(p)

\* positions of "/" in p
Slashes(p) == {k \in 1..Len(p) : SubSeq(p, k, k) = "/"}

\* os.path.dirname of a normalised path; "" is the working directory
DirName(p) ==
    IF Slashes(p) = {} THEN ""
    ELSE LET k == CHOOSE m \in Slashes(p) : \A n \in Slashes(p) : n <= m
         IN  SubSeq(p, 1, k - 1)

\* p and every ancestor directory of p
WithParents(p) == {p} \cup {SubSeq(p, 1, k - 1) : k \in Slashes(p)}

-----------------------------------------------------------------------------
(* The environment: the server's answers and the filesystem's answers *)

\* status codes a response can carry once redirects have been followed
Statuses == {200, 204, 300, 404, 500}

\* response bodies
Texts == {"", "<p>ok</p>", "{}", "{\"title\": \"t\"}",
          "{\"valid\": true, \"errors\": []}",
          "{\"valid\": false, \"errors\": [\"bad\"]}",
          "{\"errors\": []}", "null"}

Response(s, t) == [exc |-> NoExc, status |-> s, text |-> t]

Failed(e) == [exc |-> e, status |-> 0, text |-> ""]

\* what session.get / session.post can do: return a response or raise a
\* requests.RequestException
HttpOutcomes ==
    {Response(s, t) : s \in Statuses, t \in Texts}
    \cup {Failed(Exc("ConnectionError", "Connection refused")),
          Failed(Exc("Timeout", "Read timed out"))}

\* The multi-step runs (batch_convert's loop, main's examples 2 and 3) draw
\* the server's answers from these smaller sets, one answer per branch of the
\* code: non-empty text (2xx, and a 3xx that raise_for_status lets through),
\* empty text, and a failure.
ConvertOutcomes ==
    {Response(200, "<p>ok</p>"), Response(300, "<b>x</b>"), Response(200, ""),
     Failed(Exc("ConnectionError", "Connection refused"))}

UrlOutcomes ==
    {Response(200, "{\"title\": \"t\"}"), Response(200, "{}"), Response(404, "")}

\* contents of a local manifest file
YamlTexts == {"", "{}", "title: t", "title: ["}

\* what open(file_path, 'r') followed by f.read() can do
ReadOutcomes ==
    {[exc |-> NoExc, text |-> y] : y \in YamlTexts}
    \cup {[exc |-> Exc("FileNotFoundError", "No such file or directory"), text |-> ""],
          [exc |-> Exc("PermissionError", "Permission denied"), text |-> ""]}

\* what the filesystem can do to a write: let it through, refuse the open,
\* or fail the write after the file was created/truncated
WriteOutcomes == {"ok", "open_fails", "write_fails"}

\* what it can do to a mkdir of a directory that does not exist yet
MkdirOutcomes == {"ok", "fails"}

-----------------------------------------------------------------------------
(* Library functions *)

\* raise_for_status that lets client errors through
raise_for_status_ServerOnly(resp, url) ==
    IF 500 <= resp.status /\ resp.status < 600
    THEN Exc("HTTPError", "Server Error for url: " \o url)
    ELSE NoExc

\* requests.Response.raise_for_status: HTTPError for 4xx and 5xx only
raise_for_status(resp, url) ==
    IF 400 <= resp.status /\ resp.status < 500
    THEN Exc("HTTPError", "Client Error for url: " \o url)
    ELSE IF 500 <= resp.status /\ resp.status < 600
    THEN Exc("HTTPError", "Server Error for url: " \o url)
    ELSE NoExc

\* json.loads on the response bodies of Texts
json_loads(t) ==
    CASE t = "{}" -> [exc |-> NoExc, value |-> EmptyDict]
      [] t = "{\"title\": \"t\"}" ->
            [exc |-> NoExc, value |-> Dict([title |-> "t"])]
      [] t = "{\"valid\": true, \"errors\": []}" ->
            [exc |-> NoExc, value |-> Dict([valid |-> TRUE, errors |-> <<>>])]
      [] t = "{\"valid\": false, \"errors\": [\"bad\"]}" ->
            [exc |-> NoExc, value |-> Dict([valid |-> FALSE, errors |-> <<"bad">>])]
      [] t = "{\"errors\": []}" ->
            [exc |-> NoExc, value |-> Dict([errors |-> <<>>])]
      [] t = "null" -> [exc |-> NoExc, value |-> PyNone]
      [] OTHER -> [exc |-> Exc("JSONDecodeError", "Expecting value"), value |-> PyNone]

\* yaml.safe_load on the file contents of YamlTexts
safe_load(t) ==
    CASE t = "" -> [exc |-> NoExc, value |-> PyNone]
      [] t = "{}" -> [exc |-> NoExc, value |-> EmptyDict]
      [] t = "title: t" -> [exc |-> NoExc, value |-> Dict([title |-> "t"])]
      [] OTHER -> [exc |-> Exc("ParserError", "while parsing a flow node"), value |-> PyNone]

\* with open(path, 'w') as f: f.write(content)
\* -> the files afterwards and the exception raised, if any
WriteFile(ds, fs, path, content, w) ==
    LET p == Norm(path) IN
    IF DirName(p) \notin ds
    THEN [files |-> fs, exc |-> Exc("FileNotFoundError", "No such file or directory")]
    ELSE IF w = "open_fails"
    THEN [files |-> fs, exc |-> Exc("PermissionError", "Permission denied")]
    ELSE IF w = "write_fails"
    THEN [files |-> (p :> "") @@ fs, exc |-> Exc("OSError", "No space left on device")]
    ELSE [files |-> (p :> content) @@ fs, exc |-> NoExc]

-----------------------------------------------------------------------------
(* ManifestClient.  Each method is an operator from its arguments and the  *)
(* environment's answer to what the call does: the value returned, the     *)
(* exception that escapes (NoExc if none), the session calls made, the     *)
(* file operations attempted and the lines printed.                        *)

Req(method, url, body) == [method |-> method, url |-> url, json |-> body]

FsOp(kind, path) == [kind |-> kind, path |-> path]

Effect(v, e, h, f, p) ==
    [value |-> v, exc |-> e, http |-> h, fsops |-> f, prints |-> p]

\* __init__: self.server_url = server_url.rstrip('/')
ManifestClient(url) == rstrip(url)

\* response.raise_for_status(); return response.json()
\* with o the outcome of the session call that produced `response`
ResponseJson(o, url) ==
    IF o.exc # NoExc THEN [exc |-> o.exc, value |-> PyNone]
    ELSE IF raise_for_status(o, url) # NoExc
    THEN [exc |-> raise_for_status(o, url), value |-> PyNone]
    ELSE json_loads(o.text)

\* return response.text without response.raise_for_status()
ResponseText_Unchecked(o, url) ==
    IF o.exc # NoExc THEN [exc |-> o.exc, value |-> ""]
    ELSE [exc |-> NoExc, value |-> o.text]

\* response.raise_for_status(); return response.text
ResponseText(o, url) ==
    IF o.exc # NoExc THEN [exc |-> o.exc, value |-> ""]
    ELSE IF raise_for_status(o, url) # NoExc
    THEN [exc |-> raise_for_status(o, url), value |-> ""]
    ELSE [exc |-> NoExc, value |-> o.text]

\* file_path.startswith('http')
IsUrl_HttpPrefix(file_path) == StartsWith(file_path, "http")

\* the branch test of load_manifest
IsUrl(file_path) ==
    StartsWith(file_path, "http://") \/ StartsWith(file_path, "https://")

\* except requests.ConnectionError
HealthCatches_ConnectionOnly(e) == e.type = "ConnectionError"

\* the except clause of health_check
HealthCatches(e) == IsRequestException(e)

\* the status test of health_check
HealthStatusOk(status) == status = 200

health_check(base, o) ==
    LET h == <<Req("GET", base \o "/health", PyNone)>> IN
    IF o.exc # NoExc
    THEN IF HealthCatches(o.exc)
         THEN Effect(FALSE, NoExc, h, <<>>, <<>>)
         ELSE Effect(PyNone, o.exc, h, <<>>, <<>>)
    ELSE Effect(HealthStatusOk(o.status), NoExc, h, <<>>, <<>>)

\* o: the server's answer if a request is made; r: the filesystem's answer
\* if the file is opened
load_manifest(base, file_path, o, r) ==
    IF IsUrl(file_path)
    THEN LET url == base \o "/api/convert/url-to-manifest"
             h   == <<Req("POST", url, Dict([url |-> file_path]))>>
             j   == ResponseJson(o, url)
         IN  IF j.exc # NoExc
             THEN Effect(EmptyDict, NoExc, h, <<>>,
                         <<"Error loading manifest: " \o Str(j.exc)>>)
             ELSE Effect(j.value, NoExc, h, <<>>, <<>>)
    ELSE LET f == <<FsOp("open_r", file_path)>>
             y == IF r.exc # NoExc THEN [exc |-> r.exc, value |-> PyNone]
                  ELSE safe_load(r.text)
         IN  IF y.exc # NoExc
             THEN Effect(EmptyDict, NoExc, <<>>, f,
                         <<"Error loading manifest: " \o Str(y.exc)>>)
             ELSE Effect(y.value, NoExc, <<>>, f, <<>>)

convert_to_format(base, manifest_data, format_type, o) ==
    LET url == base \o "/api/convert/manifest-to-" \o format_type
        request_data == Dict([manifest |-> manifest_data, options |-> EmptyDict])
        h   == <<Req("POST", url, request_data)>>
        t   == ResponseText(o, url)
    IN  IF t.exc # NoExc
        THEN Effect("", NoExc, h, <<>>,
                    <<"Error converting to " \o format_type \o ": " \o Str(t.exc)>>)
        ELSE Effect(t.value, NoExc, h, <<>>, <<>>)

convert_url_to_manifest(base, u, o) ==
    LET url == base \o "/api/convert/url-to-manifest"
        h   == <<Req("POST", url, Dict([url |-> u]))>>
        j   == ResponseJson(o, url)
    IN  IF j.exc # NoExc
        THEN Effect(EmptyDict, NoExc, h, <<>>,
                    <<"Error converting URL to manifest: " \o Str(j.exc)>>)
        ELSE Effect(j.value, NoExc, h, <<>>, <<>>)

\* validate_manifest with the except clause of its neighbours: return {}
validate_manifest_EmptyOnError(base, manifest_data, o) ==
    LET url == base \o "/api/validate"
        h   == <<Req("POST", url, manifest_data)>>
        j   == ResponseJson(o, url)
    IN  IF j.exc # NoExc
        THEN Effect(EmptyDict, NoExc, h, <<>>,
                    <<"Error validating manifest: " \o Str(j.exc)>>)
        ELSE Effect(j.value, NoExc, h, <<>>, <<>>)

validate_manifest(base, manifest_data, o) ==
    LET url == base \o "/api/validate"
        h   == <<Req("POST", url, manifest_data)>>
        j   == ResponseJson(o, url)
    IN  IF j.exc # NoExc
        THEN Effect(Dict([valid |-> FALSE, errors |-> <<Str(j.exc)>>]), NoExc, h, <<>>,
                    <<"Error validating manifest: " \o Str(j.exc)>>)
        ELSE Effect(j.value, NoExc, h, <<>>, <<>>)

\* batch_convert's formats list
formats == <<"html", "react", "vue", "php">>

\* file_ext = 'jsx' if format_type == 'react' else format_type
file_ext(format_type) == IF format_type = "react" THEN "jsx" ELSE format_type

\* str(Path(output_dir) / f"output.{file_ext}")
output_file(dir, format_type) ==
    LET d == Norm(dir) IN
    (IF d = "" THEN "" ELSE d \o "/") \o "output." \o file_ext(format_type)

\* if content:
StrTruthy(content) == content # ""

\* dict.get(key, default); AttributeError when v is not a dict
HasGet(v) == v.type = "dict"

\* dict.get whose default is always True
Get_DefaultTrue(v, key, default) ==
    IF key \in DOMAIN v.items THEN v.items[key] ELSE TRUE

Get(v, key, default) ==
    IF key \in DOMAIN v.items THEN v.items[key] ELSE default

-----------------------------------------------------------------------------
(* Inputs of the top-level calls *)

ServerUrls == {"http://localhost:3009", "http://localhost:3009/"}

\* main's dynamic_manifest
DynamicManifest ==
    Dict([metadata  |-> "Python Generated Page",
          styles    |-> "container header content",
          structure |-> "div"])

Manifests == {EmptyDict, Dict([title |-> "t"])}

Sources == {"http://example.com/page", "https://example.com", "manifest.yaml",
            "httpx.yaml", "HTTP://EXAMPLE.COM", "http:/x", "ftp://example.com/m.yaml", ""}

FormatArgs == {"html", "react", "vue", "php", "pdf"}

OutputDirs == {"./output", "output/", "out/sub"}

\* main's constants
ManifestFile == "../../manifests/examples/complete-page.yaml"

ExampleUrl == "https://example.com"

MainOutputDir == "./output"

GeneratedFile == "./output/python-generated.html"

-----------------------------------------------------------------------------
(* The state machine *)

Init ==
    /\ server_url \in {ManifestClient(u) : u \in ServerUrls}
    /\ pc = "start"
    /\ op = "none"
    /\ ret = PyNone
    /\ raised = NoExc
    /\ dirs \in {{""}, {"", "output"}}
    /\ files \in {<<>>} \cup
                 (IF "output" \in dirs THEN {("output/output.html" :> "stale")} ELSE {})
    /\ http = <<>>
    /\ fsops = <<>>
    /\ prints = <<>>
    /\ calls = <<>>
    /\ args = <<>>
    /\ manifest = PyNone
    /\ output_dir = ""
    /\ validation = PyNone
    /\ caller = "none"
    /\ trace = <<>>
    /\ i = 0

\* a method called directly, which runs to its end in one step
Finish(name, a, eff) ==
    /\ pc = "start"
    /\ args' = a
    /\ pc' = "done"
    /\ op' = name
    /\ ret' = eff.value
    /\ raised' = eff.exc
    /\ http' = http \o eff.http
    /\ fsops' = fsops \o eff.fsops
    /\ prints' = prints \o eff.prints
    /\ UNCHANGED <<server_url, dirs, files, calls, manifest, output_dir,
                   validation, caller, trace, i>>

HealthCheck ==
    \E o \in HttpOutcomes : Finish("health_check", [o |-> o], health_check(server_url, o))

LoadManifest ==
    \E src \in Sources, o \in HttpOutcomes, r \in ReadOutcomes :
        Finish("load_manifest", [file_path |-> src, o |-> o, r |-> r],
               load_manifest(server_url, src, o, r))

ConvertToFormat ==
    \E m \in Manifests, f \in FormatArgs, o \in HttpOutcomes :
        Finish("convert_to_format", [manifest_data |-> m, format_type |-> f, o |-> o],
               convert_to_format(server_url, m, f, o))

ConvertUrlToManifest ==
    \E o \in HttpOutcomes :
        Finish("convert_url_to_manifest", [url |-> ExampleUrl, o |-> o],
               convert_url_to_manifest(server_url, ExampleUrl, o))

ValidateManifest ==
    \E m \in Manifests, o \in HttpOutcomes :
        Finish("validate_manifest", [manifest_data |-> m, o |-> o],
               validate_manifest(server_url, m, o))

\* batch_convert called directly
BatchConvert ==
    /\ pc = "start"
    /\ \E m \in Manifests, d \in OutputDirs :
        /\ manifest' = m
        /\ output_dir' = d
    /\ op' = "batch_convert"
    /\ caller' = "top"
    /\ i' = 1
    /\ pc' = "batch_mkdir"
    /\ UNCHANGED <<server_url, args, ret, raised, dirs, files, http, fsops, prints,
                   calls, validation, trace>>

\* Path(output_dir).mkdir(parents=True, exist_ok=True)
BatchMkdir ==
    /\ pc = "batch_mkdir"
    /\ fsops' = Append(fsops, FsOp("mkdir", output_dir))
    /\ \E k \in MkdirOutcomes :
        IF Norm(output_dir) \in dirs \/ k = "ok"
        THEN /\ dirs' = dirs \cup WithParents(Norm(output_dir))
             /\ pc' = "batch_loop"
             /\ UNCHANGED raised
        ELSE /\ raised' = Exc("PermissionError", "Permission denied")
             /\ pc' = "done"
             /\ UNCHANGED dirs
    /\ UNCHANGED <<server_url, args, op, ret, files, http, prints, calls, manifest,
                   output_dir, validation, caller, trace, i>>

\* one iteration of the for loop
BatchIter ==
    /\ pc = "batch_loop"
    /\ i <= Len(formats)
    /\ \E o \in ConvertOutcomes, w \in WriteOutcomes :
        LET format_type == formats[i]
            eff     == convert_to_format(server_url, manifest, format_type, o)
            content == eff.value
            path    == output_file(output_dir, format_type)
            wr      == WriteFile(dirs, files, path, content, w)
            head    == prints \o <<"Converting to " \o format_type \o "...">> \o eff.prints
        IN  /\ http' = http \o eff.http
            /\ calls' = Append(calls, [format_type |-> format_type, content |-> content])
            /\ IF StrTruthy(content)
               THEN /\ fsops' = Append(fsops, FsOp("open_w", path))
                    /\ files' = wr.files
                    /\ IF wr.exc # NoExc
                       THEN /\ raised' = wr.exc
                            /\ pc' = "done"
                            /\ prints' = head
                            /\ UNCHANGED i
                       ELSE /\ prints' = Append(head, "Saved: " \o path)
                            /\ i' = i + 1
                            /\ UNCHANGED <<raised, pc>>
               ELSE /\ prints' = Append(head, "Failed to convert to " \o format_type)
                    /\ i' = i + 1
                    /\ UNCHANGED <<fsops, files, raised, pc>>
    /\ UNCHANGED <<server_url, args, op, ret, dirs, manifest, output_dir, validation,
                   caller, trace>>

\* the loop is exhausted: batch_convert returns None
BatchReturn ==
    /\ pc = "batch_loop"
    /\ i > Len(formats)
    /\ pc' = IF caller = "main" THEN "main_url" ELSE "done"
    /\ UNCHANGED <<server_url, args, op, ret, raised, dirs, files, http, fsops, prints,
                   calls, manifest, output_dir, validation, caller, trace, i>>

-----------------------------------------------------------------------------
(* main() *)

Step(name, ok) == [call |-> name, ok |-> ok]

\* client = ManifestClient(); if not client.health_check(): ... return
MainHealth ==
    /\ pc = "start"
    /\ op' = "main"
    /\ \E o \in HttpOutcomes :
        LET eff == health_check(server_url, o) IN
        /\ http' = http \o eff.http
        /\ IF eff.exc # NoExc
           THEN /\ raised' = eff.exc
                /\ pc' = "done"
                /\ UNCHANGED <<prints, trace>>
           ELSE /\ trace' = Append(trace, Step("health_check", eff.value))
                /\ UNCHANGED raised
                /\ IF ~eff.value
                   THEN /\ prints' = prints \o <<"Manifest server is not running!",
                                                 "Start it with: npm start">>
                        /\ pc' = "done"
                   ELSE /\ prints' = Append(prints, "Connected to manifest server")
                        /\ pc' = "main_exists"
    /\ UNCHANGED <<server_url, args, ret, dirs, files, fsops, calls, manifest,
                   output_dir, validation, caller, i>>

\* if os.path.exists(manifest_file):
MainExists ==
    /\ pc = "main_exists"
    /\ fsops' = Append(fsops, FsOp("exists", ManifestFile))
    /\ \E e \in BOOLEAN :
        /\ trace' = Append(trace, Step("os.path.exists", e))
        /\ pc' = IF e THEN "main_load" ELSE "main_url"
    /\ UNCHANGED <<server_url, args, op, ret, raised, dirs, files, http, prints, calls,
                   manifest, output_dir, validation, caller, i>>

\* manifest = client.load_manifest(manifest_file); if manifest:
MainLoad ==
    /\ pc = "main_load"
    /\ \E o \in UrlOutcomes, r \in ReadOutcomes :
        LET eff == load_manifest(server_url, ManifestFile, o, r) IN
        /\ http' = http \o eff.http
        /\ fsops' = fsops \o eff.fsops
        /\ prints' = (prints \o <<"Loading manifest: " \o ManifestFile>>) \o eff.prints
        /\ manifest' = eff.value
        /\ trace' = Append(trace, Step("load_manifest", Truthy(eff.value)))
        /\ pc' = IF Truthy(eff.value) THEN "main_validate" ELSE "main_url"
    /\ UNCHANGED <<server_url, args, op, ret, raised, dirs, files, calls, output_dir,
                   validation, caller, i>>

\* validation = client.validate_manifest(manifest)
\* if validation.get('valid', False): client.batch_convert(manifest, "./output")
\* else: print the errors
MainValidate ==
    /\ pc = "main_validate"
    /\ \E o \in HttpOutcomes :
        LET eff == validate_manifest(server_url, manifest, o)
            v   == eff.value
            errors == Get(v, "errors", <<>>)
        IN  /\ http' = http \o eff.http
            /\ validation' = v
            /\ IF ~HasGet(v)
               THEN /\ raised' = Exc("AttributeError", "object has no attribute 'get'")
                    /\ pc' = "done"
                    /\ prints' = prints \o eff.prints
                    /\ UNCHANGED <<trace, output_dir, caller, i>>
               ELSE /\ UNCHANGED raised
                    /\ trace' = Append(trace, Step("validate_manifest", Get(v, "valid", FALSE)))
                    /\ IF Get(v, "valid", FALSE)
                       THEN /\ prints' = (prints \o eff.prints) \o <<"Manifest is valid">>
                            /\ output_dir' = MainOutputDir
                            /\ caller' = "main"
                            /\ i' = 1
                            /\ pc' = "batch_mkdir"
                       ELSE /\ prints' = ((prints \o eff.prints)
                                          \o <<"Manifest validation failed:">>)
                                         \o [k \in 1..Len(errors) |-> "  - " \o errors[k]]
                            /\ pc' = "main_url"
                            /\ UNCHANGED <<output_dir, caller, i>>
    /\ UNCHANGED <<server_url, args, op, ret, dirs, files, fsops, calls, manifest>>

\* url_manifest = client.convert_url_to_manifest("https://example.com")
MainUrl ==
    /\ pc = "main_url"
    /\ \E o \in UrlOutcomes :
        LET eff == convert_url_to_manifest(server_url, ExampleUrl, o) IN
        /\ http' = http \o eff.http
        /\ prints' = ((prints \o <<"Converting URL to manifest...">>) \o eff.prints)
                     \o (IF Truthy(eff.value) THEN <<"URL converted to manifest">> ELSE <<>>)
        /\ trace' = Append(trace, Step("convert_url_to_manifest", Truthy(eff.value)))
    /\ pc' = "main_dynamic"
    /\ UNCHANGED <<server_url, args, op, ret, raised, dirs, files, fsops, calls,
                   manifest, output_dir, validation, caller, i>>

\* html_output = client.convert_to_format(dynamic_manifest, 'html')
\* if html_output: write it to ./output/python-generated.html
MainDynamic ==
    /\ pc = "main_dynamic"
    /\ \E o \in ConvertOutcomes, w \in WriteOutcomes :
        LET eff == convert_to_format(server_url, DynamicManifest, "html", o)
            html_output == eff.value
            wr  == WriteFile(dirs, files, GeneratedFile, html_output, w)
            head == (prints \o <<"Creating dynamic manifest...">>) \o eff.prints
        IN  /\ http' = http \o eff.http
            /\ trace' = Append(trace, Step("convert_to_format", StrTruthy(html_output)))
            /\ IF StrTruthy(html_output)
               THEN /\ fsops' = Append(fsops, FsOp("open_w", Norm(GeneratedFile)))
                    /\ files' = wr.files
                    /\ raised' = wr.exc
                    /\ prints' = IF wr.exc = NoExc
                                 THEN Append(head, "Dynamic manifest converted and saved")
                                 ELSE head
               ELSE /\ prints' = head
                    /\ UNCHANGED <<fsops, files, raised>>
    /\ pc' = "done"
    /\ UNCHANGED <<server_url, args, op, ret, dirs, calls, manifest, output_dir,
                   validation, caller, i>>

Next ==
    \/ HealthCheck
    \/ LoadManifest
    \/ ConvertToFormat
    \/ ConvertUrlToManifest
    \/ ValidateManifest
    \/ BatchConvert
    \/ BatchMkdir
    \/ BatchIter
    \/ BatchReturn
    \/ MainHealth
    \/ MainExists
    \/ MainLoad
    \/ MainValidate
    \/ MainUrl
    \/ MainDynamic

Spec == Init /\ [][Next]_vars

-----------------------------------------------------------------------------
(* Vocabulary of the properties *)

Range(q) == {q[k] : k \in 1..Len(q)}

\* the call `name`, made directly, has ended (by returning or by raising)
Ended(name) == op = name /\ pc = "done"

Is2xx(status) == 200 <= status /\ status < 300

Is4xxOr5xx(status) == 400 <= status /\ status < 600

\* the members of Sources that begin with http:// or https://
UrlSources == {"http://example.com/page", "https://example.com"}

\* the members of Texts that are not JSON documents
MalformedJson == {"", "<p>ok</p>"}

\* the members of YamlTexts that are not YAML documents
MalformedYaml == {"title: ["}

\* the session calls each method is meant to make
PostUrlToManifest(u) ==
    Req("POST", "http://localhost:3009/api/convert/url-to-manifest", Dict([url |-> u]))

PostManifestTo(f, m) ==
    Req("POST", "http://localhost:3009/api/convert/manifest-to-" \o f,
        Dict([manifest |-> m, options |-> EmptyDict]))

-----------------------------------------------------------------------------
(* Properties of batch_convert *)

\* C1: batch_convert never raises to its caller, whether a conversion fails
\* or creating output_dir or opening/writing an output file fails.
C1_BatchNeverRaises ==
    Ended("batch_convert") => raised = NoExc

\* C2: when batch_convert has ended, convert_to_format has been called
\* exactly once for each of html, react, vue, php, in that order.
C2_AllFormatsCalled ==
    Ended("batch_convert") =>
        [k \in 1..Len(calls) |-> calls[k].format_type] = <<"html", "react", "vue", "php">>

\* the file batch_convert is meant to write for format f
ExpectedFile(f) ==
    Norm(output_dir) \o "/output." \o (IF f = "react" THEN "jsx" ELSE f)

\* C3: when batch_convert has ended then, for each format, either the
\* content was non-empty and output.<ext> holds it, or the content was empty,
\* no file was opened for it and a failure was printed; nothing else under
\* output_dir was opened for writing.
C3_OneFilePerFormat ==
    Ended("batch_convert") =>
        /\ \A k \in 1..4 :
             LET f == <<"html", "react", "vue", "php">>[k] IN
             /\ k <= Len(calls)
             /\ calls[k].format_type = f
             /\ IF calls[k].content # ""
                THEN /\ ExpectedFile(f) \in DOMAIN files
                     /\ files[ExpectedFile(f)] = calls[k].content
                ELSE /\ FsOp("open_w", ExpectedFile(f)) \notin Range(fsops)
                     /\ ("Failed to convert to " \o f) \in Range(prints)
        /\ \A x \in Range(fsops) :
             x.kind = "open_w" =>
                 x.path \in {ExpectedFile(f) : f \in {"html", "react", "vue", "php"}}

\* What does hold of batch_convert: a run that returns (no filesystem
\* operation raised) has made the four calls in order, whatever each
\* conversion did, and has written exactly the files of the non-empty results.
BatchReturnedComplete ==
    (Ended("batch_convert") /\ raised = NoExc) =>
        /\ [k \in 1..Len(calls) |-> calls[k].format_type] = <<"html", "react", "vue", "php">>
        /\ \A k \in 1..Len(calls) :
             IF calls[k].content # ""
             THEN /\ ExpectedFile(calls[k].format_type) \in DOMAIN files
                  /\ files[ExpectedFile(calls[k].format_type)] = calls[k].content
             ELSE FsOp("open_w", ExpectedFile(calls[k].format_type)) \notin Range(fsops)

-----------------------------------------------------------------------------
(* Properties of load_manifest *)

\* the failures C4 names, as stated: any non-2xx status is one
LoadFailedNon2xx ==
    IF args.file_path \in UrlSources
    THEN \/ args.o.exc # NoExc
         \/ ~Is2xx(args.o.status)
         \/ args.o.text \in MalformedJson
    ELSE \/ args.r.exc # NoExc
         \/ args.r.text \in MalformedYaml

\* the failures the code treats as such: of the statuses, 4xx and 5xx
LoadFailed ==
    IF args.file_path \in UrlSources
    THEN \/ args.o.exc # NoExc
         \/ Is4xxOr5xx(args.o.status)
         \/ args.o.text \in MalformedJson
    ELSE \/ args.r.exc # NoExc
         \/ args.r.text \in MalformedYaml

C5_LoadManifestOnePath ==
    Ended("load_manifest") =>
        IF args.file_path \in UrlSources
        THEN /\ http = <<PostUrlToManifest(args.file_path)>>
             /\ fsops = <<>>
        ELSE /\ http = <<>>
             /\ fsops = <<FsOp("open_r", args.file_path)>>

\* a source that looks like a URL but is not one was read as a local file
C5_Witness ==
    /\ Ended("load_manifest")
    /\ args.file_path = "httpx.yaml"
    /\ http = <<>>
    /\ fsops = <<FsOp("open_r", "httpx.yaml")>>

-----------------------------------------------------------------------------
(* Properties of health_check *)

\* C6 as stated: health_check never raises and returns true iff a response
\* came back whose status is a success (2xx) status.
C6_HealthTrueIff2xx ==
    Ended("health_check") =>
        /\ raised = NoExc
        /\ ret = (args.o.exc = NoExc /\ Is2xx(args.o.status))

\* C6 amended: health_check never raises and returns true iff a response
\* came back whose status is exactly 200.
C6_HealthTrueIff200 ==
    Ended("health_check") =>
        /\ raised = NoExc
        /\ ret = (args.o.exc = NoExc /\ args.o.status = 200)

\* a timeout was turned into False
C6_Witness ==
    /\ Ended("health_check")
    /\ args.o.exc.type = "Timeout"
    /\ ret = FALSE
    /\ raised = NoExc

-----------------------------------------------------------------------------
(* Properties of convert_to_format *)

-----------------------------------------------------------------------------
(* Properties of validate_manifest *)

\* the record validate_manifest returns for a failure with message m
ErrorRecord(m) == Dict([valid |-> FALSE, errors |-> <<m>>])

-----------------------------------------------------------------------------
(* Properties of main *)

GetHealth == Req("GET", "http://localhost:3009/health", PyNone)

\* main has called batch_convert
MainCalledBatch == op = "main" /\ caller = "main"

\* example 1 stopped at an empty manifest or at a failed validation
SoftStopped ==
    \/ Step("load_manifest", FALSE) \in Range(trace)
    \/ Step("validate_manifest", FALSE) \in Range(trace)

C10_OutputDirExistsAtWrite ==
    (op = "main" /\ FsOp("open_w", "output/python-generated.html") \in Range(fsops)) =>
        /\ "output" \in dirs
        /\ raised.type # "FileNotFoundError"

====
